---- MODULE Spec2Model ----
(***************************************************************************)
(* Model of the Raspberry Pi capture scripts.                              *)
(*                                                                         *)
(*   sleep_cycle.py : backend selection at import time, setup(), and the   *)
(*                    capture / low-power / wait loop of main().           *)
(*   sleep_test.py  : the low-power state tester (kernel sleep-state list, *)
(*                    preference filter, rtcwake tests, recommendation).   *)
(*                                                                         *)
(* The two scripts are separate processes.  Spec / FairSpec run            *)
(* sleep_cycle.py, TestSpec runs sleep_test.py.                            *)
(***************************************************************************)
EXTENDS Integers, Sequences, FiniteSets, TLC

\* ------------------------------------------------------------------ bounds
\* cycles of the while-True loop that are explored
MaxCycles == 3
\* largest --interval explored (in clock ticks)
MaxInterval == 2
\* clock ticks per calendar day (a tick stands for one second of the clock)
TicksPerDay == 2
\* longest kernel sleep-state list explored
MaxStates == 3

\* ---------------------------------------------------------------- variables
VARIABLES
    \* sleep_cycle.py
    args,               \* parsed command line: [interval, camera_method]
    discoverable,       \* what the host offers: executables on PATH, importable modules
    camera_method,      \* module global set by find_camera_method() at import
    in_low_power_mode,  \* module global flag
    cycle_count,        \* module global counter
    pc,                 \* position of main()
    raised,             \* exception propagating through main(), "none" if none
    loop_exit,          \* what ended the try block: "none", "KeyboardInterrupt", "OSError", ...
    interrupted,        \* history: a KeyboardInterrupt was delivered while the loop ran
    clock,              \* the wall clock, in ticks
    now,                \* capture_image's local: the clock reading it took
    dirs,               \* the directories that exist below the working directory
    image_path,         \* capture_image's local: the path handed to the backend
    capture_success,    \* main's local: what capture_image returned
    events,             \* history: capture attempts and idle waits, in order
    \* sleep_test.py
    t_pc,               \* position of the tester
    sys_power_state,    \* /sys/power/state: [readable, states]
    available_states,   \* main's local
    states_to_test,     \* main's local
    working_states,     \* main's local
    test_index,         \* loop index of "for state in states_to_test"
    rtcwake_calls,      \* history: the rtcwake invocations [state, duration]
    recommended,        \* the state printed as recommended, <<>> if none
    exit_status         \* the tester's exit status, -1 while running

cycle_vars == <<args, discoverable, camera_method, in_low_power_mode, cycle_count,
                pc, raised, loop_exit, interrupted, clock, now, dirs, image_path,
                capture_success, events>>
test_vars == <<t_pc, sys_power_state, available_states, states_to_test,
               working_states, test_index, rtcwake_calls, recommended, exit_status>>
vars == <<cycle_vars, test_vars>>

\* =========================================================================
\*                              sleep_cycle.py
\* =========================================================================

CameraMethodChoices == {"auto", "libcamera", "picamera", "fswebcam"}
Tools == {"libcamera-still", "fswebcam", "picamera"}
\* --interval values explored: the non-negative ones, which time.sleep accepts
Intervals == 0..MaxInterval

\* shutil.which(name): truthy iff the executable is on the PATH
which(host, name) == name \in host

\* "import picamera" succeeds iff the module is installed
importable(host, name) == name \in host

\* a swapped preference order
find_camera_method_fswebcam_first(forced, host) ==
    IF forced # "auto" THEN forced
    ELSE IF which(host, "fswebcam") THEN "fswebcam"
    ELSE IF which(host, "libcamera-still") THEN "libcamera"
    ELSE "picamera"

\* a selector that reports the absence of every backend instead of falling back
find_camera_method_strict(forced, host) ==
    IF forced # "auto" THEN forced
    ELSE IF which(host, "libcamera-still") THEN "libcamera"
    ELSE IF which(host, "fswebcam") THEN "fswebcam"
    ELSE IF importable(host, "picamera") THEN "picamera"
    ELSE "NoBackendAvailable"

find_camera_method(forced, host) ==
    IF forced # "auto" THEN forced
    ELSE IF which(host, "libcamera-still") THEN "libcamera"
    ELSE IF which(host, "fswebcam") THEN "fswebcam"
    ELSE IF importable(host, "picamera") THEN "picamera"
    ELSE "picamera"

\* --------------------------------------------------------------- filesystem
ImagesDir == <<"images">>

Prefixes(path) == {SubSeq(path, 1, k) : k \in 1..Len(path)}

\* os.path.exists
exists(fs, path) == path \in fs

\* os.makedirs(path) without exist_ok: creates the path and its missing parents,
\* raises FileExistsError when the path exists, OSError when the host refuses.
makedirs(fs, path, io_ok) ==
    IF path \in fs THEN [raised |-> "FileExistsError", fs |-> fs]
    ELSE IF ~io_ok THEN [raised |-> "OSError", fs |-> fs]
    ELSE [raised |-> "none", fs |-> fs \cup Prefixes(path)]

\* creation without the existence test
create_if_absent_unguarded(fs, path, io_ok) == makedirs(fs, path, io_ok)

\* "if not os.path.exists(p): os.makedirs(p)"
create_if_absent(fs, path, io_ok) ==
    IF ~exists(fs, path) THEN makedirs(fs, path, io_ok)
    ELSE [raised |-> "none", fs |-> fs]

\* ------------------------------------------------------- time and file names
\* now.strftime("%Y%m%d"): the calendar day of a clock reading
date_str_of(t) == t \div TicksPerDay

\* now.strftime("%Y%m%d_%H%M%S"): day and time of day, to tick granularity
timestamp_of(t) == <<t \div TicksPerDay, t % TicksPerDay>>

\* the day directory of the day before
daily_dir_of_yesterday(date_str) == <<"images", date_str - 1>>

\* f"./images/{date_str}"
daily_dir_of(date_str) == <<"images", date_str>>

\* f"{daily_dir}/image_{timestamp}.jpg"
image_path_of(daily_dir, timestamp) == [dir |-> daily_dir, file |-> <<"image">> \o timestamp]

NoTime == 0 - 1
NoPath == [dir |-> <<>>, file |-> <<>>]

\* ------------------------------------------------------------------ backends
\* What the external collaborator does when invoked.  subprocess.run(check=False)
\* returns an exit code, or raises when the executable cannot be started;
\* "import picamera" raises ImportError when the module is missing, and the
\* camera object raises when the capture fails.
BackendOutcomes(method, host) ==
    CASE method = "libcamera" ->
            IF which(host, "libcamera-still") THEN {"exit0", "exit1", "OSError"}
            ELSE {"FileNotFoundError"}
      [] method = "fswebcam" ->
            IF which(host, "fswebcam") THEN {"exit0", "exit1", "OSError"}
            ELSE {"FileNotFoundError"}
      [] method = "picamera" ->
            IF importable(host, "picamera") THEN {"captured", "PiCameraError"}
            ELSE {"ImportError"}
      [] OTHER -> {}

Errors == {"OSError", "FileNotFoundError", "PiCameraError", "ImportError"}

\* a bare "except:" catches everything
bare_except_catches(exc) == TRUE

\* "except Exception" does not catch the BaseExceptions KeyboardInterrupt and SystemExit
except_Exception_catches(exc) == exc \notin {"KeyboardInterrupt", "SystemExit"}

\* a backend without its try/except: the error reaches the caller
capture_with_libcamera_no_try(outcome) ==
    IF outcome \in Errors THEN [raised |-> outcome, value |-> FALSE]
    ELSE [raised |-> "none", value |-> outcome = "exit0"]

\* returncode == 0 -> True; otherwise, and on any Exception -> False
capture_with_libcamera(outcome) == [raised |-> "none", value |-> outcome = "exit0"]

capture_with_fswebcam(outcome) == [raised |-> "none", value |-> outcome = "exit0"]

\* ImportError -> False; any other Exception -> False; else True
capture_with_picamera(outcome) == [raised |-> "none", value |-> outcome = "captured"]

\* --------------------------------------------------------- low-power flag
\* a low-power entry that leaves the flag alone
enter_low_power_mode_no_flag(flag) == flag

\* the new value of in_low_power_mode
enter_low_power_mode(flag) == TRUE

exit_low_power_mode(flag) == FALSE

\* a counter that is not advanced
next_cycle_count_stuck(count) == count

\* cycle_count += 1
next_cycle_count(count) == count + 1

\* ------------------------------------------------------------ history log
CaptureEvent == [kind |-> "capture", arg |-> 0]
IdleEvent(seconds) == [kind |-> "idle", arg |-> seconds]

RECURSIVE CountKind(_, _)
CountKind(log, kind) ==
    IF log = <<>> THEN 0
    ELSE (IF Head(log).kind = kind THEN 1 ELSE 0) + CountKind(Tail(log), kind)

capture_attempts == CountKind(events, "capture")
idle_waits == CountKind(events, "idle")

\* ------------------------------------------------------------------- Init
InitialDirs == {{}, {ImagesDir}, {ImagesDir, daily_dir_of(0)}}

CycleInit ==
    /\ args \in [interval : Intervals, camera_method : CameraMethodChoices]
    /\ discoverable \in SUBSET Tools
    /\ camera_method = find_camera_method(args.camera_method, discoverable)
    /\ in_low_power_mode = FALSE
    /\ cycle_count = 0
    /\ pc = "setup"
    /\ raised = "none"
    /\ loop_exit = "none"
    /\ interrupted = FALSE
    /\ clock \in 0..(TicksPerDay - 1)
    /\ now = NoTime
    /\ dirs \in InitialDirs
    /\ image_path = NoPath
    /\ capture_success = FALSE
    /\ events = <<>>

\* the tester is not running
TestIdle ==
    /\ t_pc = "off"
    /\ sys_power_state = [readable |-> FALSE, states |-> <<>>]
    /\ available_states = <<>>
    /\ states_to_test = <<>>
    /\ working_states = <<>>
    /\ test_index = 0
    /\ rtcwake_calls = <<>>
    /\ recommended = <<>>
    /\ exit_status = 0 - 1

Init == CycleInit /\ TestIdle

\* ------------------------------------------------------------------ setup()
\* Runs before the try block of main(): an error here is not handled.
setup ==
    /\ pc = "setup"
    /\ \E io_ok \in BOOLEAN :
         LET r == create_if_absent(dirs, ImagesDir, io_ok) IN
         /\ dirs' = r.fs
         /\ raised' = r.raised
         /\ pc' = IF r.raised = "none" THEN "disable_unused_components" ELSE "aborted"
    /\ UNCHANGED <<args, interrupted, discoverable, camera_method, in_low_power_mode, cycle_count,
                   loop_exit, clock, now, image_path, capture_success, events>>

\* The HDMI and CPU-governor commands act on the host only; every error in them
\* is caught, and setup() then returns to main().
disable_unused_components ==
    /\ pc = "disable_unused_components"
    /\ pc' = "while"
    /\ UNCHANGED <<args, interrupted, discoverable, camera_method, in_low_power_mode, cycle_count,
                   raised, loop_exit, clock, now, dirs, image_path, capture_success, events>>

\* ------------------------------------------------------------ main(): loop
\* head of the while loop up to the call of capture_image()
BeginCycle ==
    /\ pc = "while"
    /\ cycle_count < MaxCycles
    /\ in_low_power_mode' = IF in_low_power_mode
                            THEN exit_low_power_mode(in_low_power_mode)
                            ELSE in_low_power_mode
    /\ cycle_count' = next_cycle_count(cycle_count)
    /\ events' = Append(events, CaptureEvent)
    /\ pc' = "capture_image"
    /\ UNCHANGED <<args, interrupted, discoverable, camera_method, raised, loop_exit, clock, now,
                   dirs, image_path, capture_success>>

\* capture_image(): the clock reading
capture_image_now ==
    /\ pc = "capture_image"
    /\ now' = clock
    /\ pc' = "daily_dir"
    /\ UNCHANGED <<args, interrupted, discoverable, camera_method, in_low_power_mode, cycle_count,
                   raised, loop_exit, clock, dirs, image_path, capture_success, events>>

\* capture_image(): the day directory and the image path
capture_image_daily_dir ==
    /\ pc = "daily_dir"
    /\ \E io_ok \in BOOLEAN :
         LET daily_dir == daily_dir_of(date_str_of(now))
             r == create_if_absent(dirs, daily_dir, io_ok)
         IN
         /\ dirs' = r.fs
         /\ IF r.raised = "none"
            THEN /\ image_path' = image_path_of(daily_dir, timestamp_of(now))
                 /\ pc' = "backend"
                 /\ UNCHANGED <<raised, loop_exit>>
            ELSE /\ raised' = r.raised
                 /\ loop_exit' = r.raised
                 /\ pc' = "except_Exception"
                 /\ UNCHANGED image_path
    /\ UNCHANGED <<args, interrupted, discoverable, camera_method, in_low_power_mode, cycle_count,
                   clock, now, capture_success, events>>

\* capture_image(): the selected backend runs and its result is returned to main()
capture_image_backend ==
    /\ pc = "backend"
    /\ IF camera_method \in {"libcamera", "fswebcam", "picamera"}
       THEN \E outcome \in BackendOutcomes(camera_method, discoverable), took \in 0..1 :
              LET r == CASE camera_method = "libcamera" -> capture_with_libcamera(outcome)
                         [] camera_method = "fswebcam" -> capture_with_fswebcam(outcome)
                         [] camera_method = "picamera" -> capture_with_picamera(outcome)
              IN
              /\ clock' = clock + took
              /\ IF r.raised = "none"
                 THEN /\ capture_success' = r.value
                      /\ pc' = "enter_low_power_mode"
                      /\ UNCHANGED <<raised, loop_exit>>
                 ELSE /\ raised' = r.raised
                      /\ loop_exit' = r.raised
                      /\ pc' = "except_Exception"
                      /\ UNCHANGED capture_success
       ELSE \* "No valid camera method available": no backend runs
            /\ capture_success' = FALSE
            /\ pc' = "enter_low_power_mode"
            /\ UNCHANGED <<raised, loop_exit, clock>>
    /\ UNCHANGED <<args, interrupted, discoverable, camera_method, in_low_power_mode, cycle_count,
                   now, dirs, image_path, events>>

\* enter_low_power_mode() and the call of time.sleep(args.interval)
EnterLowPower ==
    /\ pc = "enter_low_power_mode"
    /\ in_low_power_mode' = enter_low_power_mode(in_low_power_mode)
    /\ events' = Append(events, IdleEvent(args.interval))
    /\ pc' = "sleep"
    /\ UNCHANGED <<args, interrupted, discoverable, camera_method, cycle_count, raised, loop_exit,
                   clock, now, dirs, image_path, capture_success>>

\* time.sleep(args.interval) returns
SleepReturns ==
    /\ pc = "sleep"
    /\ clock' = clock + args.interval
    /\ pc' = "while"
    /\ UNCHANGED <<args, interrupted, discoverable, camera_method, in_low_power_mode, cycle_count,
                   raised, loop_exit, now, dirs, image_path, capture_success, events>>

\* -------------------------------------------------------- main(): handlers
ExceptKeyboardInterrupt ==
    /\ pc = "except_KeyboardInterrupt"
    /\ raised' = "none"
    /\ pc' = "finally"
    /\ UNCHANGED <<args, interrupted, discoverable, camera_method, in_low_power_mode, cycle_count,
                   loop_exit, clock, now, dirs, image_path, capture_success, events>>

ExceptException ==
    /\ pc = "except_Exception"
    /\ raised' = "none"
    /\ pc' = "finally"
    /\ UNCHANGED <<args, interrupted, discoverable, camera_method, in_low_power_mode, cycle_count,
                   loop_exit, clock, now, dirs, image_path, capture_success, events>>

\* the finally block; an exception still propagating leaves main() after it
Finally ==
    /\ pc = "finally"
    /\ in_low_power_mode' = IF in_low_power_mode
                            THEN exit_low_power_mode(in_low_power_mode)
                            ELSE in_low_power_mode
    /\ pc' = IF raised = "none" THEN "done" ELSE "aborted"
    /\ UNCHANGED <<args, interrupted, discoverable, camera_method, cycle_count, raised, loop_exit,
                   clock, now, dirs, image_path, capture_success, events>>

\* ------------------------------------------------------------- interrupts
LoopPcs == {"while", "capture_image", "daily_dir", "backend",
            "enter_low_power_mode", "sleep"}

\* Ctrl-C while the try block runs.  KeyboardInterrupt passes the backend's
\* handler unless that handler catches it; uncaught, it reaches main()'s handler.
Interrupt ==
    /\ pc \in LoopPcs
    /\ interrupted' = TRUE
    /\ IF pc = "backend" /\ except_Exception_catches("KeyboardInterrupt")
       THEN \* the backend's handler prints the error and returns False
            /\ capture_success' = FALSE
            /\ pc' = "enter_low_power_mode"
            /\ UNCHANGED <<raised, loop_exit>>
       ELSE /\ raised' = "KeyboardInterrupt"
            /\ loop_exit' = "KeyboardInterrupt"
            /\ pc' = "except_KeyboardInterrupt"
            /\ UNCHANGED capture_success
    /\ UNCHANGED <<args, discoverable, camera_method, in_low_power_mode, cycle_count,
                   clock, now, dirs, image_path, events>>

\* Ctrl-C during setup(): inside the try blocks of disable_unused_components the
\* bare "except:" clauses swallow it and setup goes on; anywhere else it leaves
\* the program, as setup() runs outside main()'s try block.
InterruptInSetup ==
    /\ pc \in {"setup", "disable_unused_components"}
    /\ \E swallowed \in BOOLEAN :
         IF swallowed /\ pc = "disable_unused_components" /\ bare_except_catches("KeyboardInterrupt")
         THEN /\ pc' = "while"
              /\ UNCHANGED raised
         ELSE /\ pc' = "aborted"
              /\ raised' = "KeyboardInterrupt"
    /\ UNCHANGED <<args, interrupted, discoverable, camera_method, in_low_power_mode, cycle_count,
                   loop_exit, clock, now, dirs, image_path, capture_success, events>>

\* Ctrl-C while a handler or the finally block runs: from a handler the finally
\* block still runs and the interrupt then leaves main(); in the finally block
\* it leaves main() at once, before or after the flag was cleared.
InterruptInShutdown ==
    /\ \/ /\ pc \in {"except_KeyboardInterrupt", "except_Exception"}
          /\ pc' = "finally"
          /\ UNCHANGED in_low_power_mode
       \/ /\ pc = "finally"
          /\ pc' = "aborted"
          /\ in_low_power_mode' \in {in_low_power_mode, FALSE}
    /\ raised' = "KeyboardInterrupt"
    /\ UNCHANGED <<args, interrupted, discoverable, camera_method, cycle_count, loop_exit,
                   clock, now, dirs, image_path, capture_success, events>>

ProgramStep ==
    \/ setup
    \/ disable_unused_components
    \/ BeginCycle
    \/ capture_image_now
    \/ capture_image_daily_dir
    \/ capture_image_backend
    \/ EnterLowPower
    \/ SleepReturns
    \/ ExceptKeyboardInterrupt
    \/ ExceptException
    \/ Finally

Next ==
    \/ ProgramStep /\ UNCHANGED test_vars
    \/ Interrupt /\ UNCHANGED test_vars
    \/ InterruptInSetup /\ UNCHANGED test_vars
    \/ InterruptInShutdown /\ UNCHANGED test_vars

Spec == Init /\ [][Next]_vars

\* The script is one sequential process: every blocking call returns and the
\* next statement runs.  Interrupts are the user's and are not forced.
FairSpec == Spec /\ WF_vars(ProgramStep /\ UNCHANGED test_vars)

\* =========================================================================
\*                              sleep_test.py
\* =========================================================================

\* names that can stand in /sys/power/state; "hybrid" is none of the tested four
KernelStateNames == {"mem", "standby", "freeze", "disk", "hybrid"}

Range(seq) == {seq[i] : i \in 1..Len(seq)}

\* the lists the kernel can expose: no name twice
KernelLists ==
    {l \in UNION {[1..n -> KernelStateNames] : n \in 0..MaxStates} :
        Cardinality(Range(l)) = Len(l)}

\* duration=10, the default of test_sleep_state
DefaultDuration == 10
\* the duration of the final test of the recommended state
FinalDuration == 30

\* a probe that assumes "mem" when the list cannot be read
check_sleep_states_default_mem(file) ==
    IF file.readable THEN file.states ELSE <<"mem">>

\* open/read/split; any error gives the empty list
check_sleep_states(file) ==
    IF file.readable THEN file.states ELSE <<>>

test_states == <<"mem", "standby", "freeze", "disk">>

\* a filter that keeps the order of the kernel list
filter_states_kernel_order(known, available) ==
    SelectSeq(available, LAMBDA state : state \in Range(known))

\* [state for state in test_states if state in available_states]
filter_states(known, available) ==
    SelectSeq(known, LAMBDA state : state \in Range(available))

\* rtcwake run with check=True: exit 0, non-zero exit (CalledProcessError), or
\* not startable (any other Exception)
RtcwakeOutcomes == {"exit0", "CalledProcessError", "OSError"}

\* True iff rtcwake returned 0; both except clauses give False
test_sleep_state(outcome) == outcome = "exit0"

RtcwakeCall(state, duration, outcome) ==
    [state |-> state, duration |-> duration, outcome |-> outcome]

\* the capture script is not running
CycleIdle ==
    /\ args = [interval |-> 0, camera_method |-> "auto"]
    /\ discoverable = {}
    /\ camera_method = "picamera"
    /\ in_low_power_mode = FALSE
    /\ cycle_count = 0
    /\ pc = "off"
    /\ raised = "none"
    /\ loop_exit = "none"
    /\ interrupted = FALSE
    /\ clock = 0
    /\ now = NoTime
    /\ dirs = {}
    /\ image_path = NoPath
    /\ capture_success = FALSE
    /\ events = <<>>

TestInit ==
    /\ CycleIdle
    /\ t_pc = "check"
    /\ sys_power_state \in
          {[readable |-> FALSE, states |-> <<>>]}
          \cup {[readable |-> TRUE, states |-> l] : l \in KernelLists}
    /\ available_states = <<>>
    /\ states_to_test = <<>>
    /\ working_states = <<>>
    /\ test_index = 0
    /\ rtcwake_calls = <<>>
    /\ recommended = <<>>
    /\ exit_status = 0 - 1

\* available_states = check_sleep_states(); sys.exit(1) when it is empty
T_CheckStates ==
    /\ t_pc = "check"
    /\ available_states' = check_sleep_states(sys_power_state)
    /\ IF available_states' = <<>>
       THEN t_pc' = "sys_exit" /\ exit_status' = 1
       ELSE t_pc' = "filter" /\ UNCHANGED exit_status
    /\ UNCHANGED <<sys_power_state, states_to_test, working_states, test_index,
                   rtcwake_calls, recommended>>

\* states_to_test = [...]; sys.exit(1) when it is empty
T_Filter ==
    /\ t_pc = "filter"
    /\ states_to_test' = filter_states(test_states, available_states)
    /\ IF states_to_test' = <<>>
       THEN t_pc' = "sys_exit" /\ exit_status' = 1 /\ UNCHANGED test_index
       ELSE t_pc' = "testing" /\ test_index' = 1 /\ UNCHANGED exit_status
    /\ UNCHANGED <<sys_power_state, available_states, working_states,
                   rtcwake_calls, recommended>>

\* one iteration of "for state in states_to_test"
T_TestState ==
    /\ t_pc = "testing"
    /\ test_index <= Len(states_to_test)
    /\ \E outcome \in RtcwakeOutcomes :
         LET state == states_to_test[test_index] IN
         /\ rtcwake_calls' = Append(rtcwake_calls, RtcwakeCall(state, DefaultDuration, outcome))
         /\ working_states' = IF test_sleep_state(outcome)
                              THEN Append(working_states, state)
                              ELSE working_states
    /\ test_index' = test_index + 1
    /\ t_pc' = IF test_index' > Len(states_to_test) THEN "summary" ELSE "testing"
    /\ UNCHANGED <<sys_power_state, available_states, states_to_test, recommended,
                   exit_status>>

\* the summary: the recommended state is working_states[0]
T_Summary ==
    /\ t_pc = "summary"
    /\ IF working_states # <<>>
       THEN /\ recommended' = <<working_states[1]>>
            /\ t_pc' = "final_test"
            /\ UNCHANGED exit_status
       ELSE /\ t_pc' = "returned"
            /\ exit_status' = 0
            /\ UNCHANGED recommended
    /\ UNCHANGED <<sys_power_state, available_states, states_to_test, working_states,
                   test_index, rtcwake_calls>>

\* test_sleep_state(working_states[0], 30); its result is not used
T_FinalTest ==
    /\ t_pc = "final_test"
    /\ \E outcome \in RtcwakeOutcomes :
         rtcwake_calls' = Append(rtcwake_calls,
                                 RtcwakeCall(working_states[1], FinalDuration, outcome))
    /\ t_pc' = "returned"
    /\ exit_status' = 0
    /\ UNCHANGED <<sys_power_state, available_states, states_to_test, working_states,
                   test_index, recommended>>

\* Ctrl-C: caught by the handler around main(), which prints and ends normally
T_Interrupt ==
    /\ t_pc \in {"check", "filter", "testing", "summary", "final_test"}
    /\ t_pc' = "interrupted"
    /\ exit_status' = 0
    /\ UNCHANGED <<sys_power_state, available_states, states_to_test, working_states,
                   test_index, rtcwake_calls, recommended>>

TestNext ==
    \/ T_CheckStates /\ UNCHANGED cycle_vars
    \/ T_Filter /\ UNCHANGED cycle_vars
    \/ T_TestState /\ UNCHANGED cycle_vars
    \/ T_Summary /\ UNCHANGED cycle_vars
    \/ T_FinalTest /\ UNCHANGED cycle_vars
    \/ T_Interrupt /\ UNCHANGED cycle_vars

TestSpec == TestInit /\ [][TestNext]_vars

\* =========================================================================
\*                                properties
\* =========================================================================

Running == pc # "off"
BackendFailed == pc = "enter_low_power_mode" /\ ~capture_success
Terminated == pc \in {"done", "aborted"}

\* the path the layout ./images/<D>/image_<D>_<time>.jpg gives for a clock reading
ExpectedDir(t) == <<"images", t \div TicksPerDay>>
ExpectedFile(t) == <<"image", t \div TicksPerDay, t % TicksPerDay>>

NoBackends == Running /\ args.camera_method = "auto" /\ discoverable = {}

\* C2 as stated: with no backend discoverable and none forced, startup fails and
\* no capture attempt and no idle wait is ever performed.
C2_LoopNeverRuns == NoBackends => (events = <<>> /\ pc \notin LoopPcs \ {"while"})

\* C2 amended: with no backend discoverable and none forced, picamera is selected
\* all the same, no start-up error is raised for it, and every capture attempt
\* that reaches the backend reports failure and is followed by the idle wait.
C2_LazyPicameraFallback ==
    NoBackends =>
        /\ camera_method = "picamera"
        /\ raised \in {"none", "OSError", "KeyboardInterrupt"}
        /\ loop_exit \in {"none", "OSError", "KeyboardInterrupt"}
        /\ ~capture_success
        /\ pc = "sleep" => (Len(events) = 2 * cycle_count /\ events[Len(events)].kind = "idle")

\* the loop is in its second idle wait on a host without any backend
C2_Witness == NoBackends /\ pc = "sleep" /\ cycle_count = 2 /\ ~interrupted

\* ---------------------------------------------------------------- C3
\* C3: the selected backend is the forced one when a method is forced, else
\* libcamera when libcamera-still is discoverable, else fswebcam when fswebcam
\* is discoverable, else picamera.
C3_PreferenceOrder ==
    Running =>
        /\ args.camera_method # "auto" => camera_method = args.camera_method
        /\ (args.camera_method = "auto" /\ "libcamera-still" \in discoverable)
              => camera_method = "libcamera"
        /\ (args.camera_method = "auto" /\ "libcamera-still" \notin discoverable
              /\ "fswebcam" \in discoverable)
              => camera_method = "fswebcam"
        /\ (args.camera_method = "auto" /\ "libcamera-still" \notin discoverable
              /\ "fswebcam" \notin discoverable)
              => camera_method = "picamera"

\* both tools are discoverable, nothing is forced, and the libcamera backend runs
C3_Witness ==
    /\ args.camera_method = "auto"
    /\ {"libcamera-still", "fswebcam"} \subseteq discoverable
    /\ camera_method = "libcamera"
    /\ pc = "backend"

\* ---------------------------------------------------------------- C6
\* C6: the backend is handed ./images/<D>/image_<T>.jpg for the one clock reading
\* capture_image took, ./images/<D> exists when the backend is invoked and after
\* capture_image returned, and the call creates no directory of another date.
C6_PathAndDirectory ==
    /\ [](pc = "backend" =>
            /\ image_path = [dir |-> ExpectedDir(now), file |-> ExpectedFile(now)]
            /\ ExpectedDir(now) \in dirs)
    /\ [](pc \in {"enter_low_power_mode", "sleep"} => ExpectedDir(now) \in dirs)
    /\ [][(pc = "capture_image" /\ pc' = "daily_dir") => now' = clock]_vars
    /\ [][(pc \in {"capture_image", "daily_dir", "backend"})
            => ((dirs' \ dirs) \subseteq {<<"images">>, ExpectedDir(now')})]_vars

\* the backend is invoked on the second day, whose directory this call created
C6_Witness ==
    /\ pc = "backend"
    /\ now \div TicksPerDay = 1
    /\ cycle_count = 2
    /\ image_path.dir = <<"images", 1>>
    /\ {<<"images", 0>>, <<"images", 1>>} \subseteq dirs

\* ---------------------------------------------------------------- C7
Alternates(log) ==
    \A i \in 1..Len(log) :
        log[i].kind = (IF i % 2 = 1 THEN "capture" ELSE "idle")

\* C7: captures and idle waits alternate, one of each per cycle, every wait is of
\* the configured interval, after n completed cycles there were n captures and n
\* waits and the counter is n, the counter moves by +1 only, and the loop ends
\* only by an exception or interrupt.
C7_StrictAlternation ==
    /\ [](Running =>
            /\ Alternates(events)
            /\ \A i \in 1..Len(events) :
                  events[i].kind = "idle" => events[i].arg = args.interval
            /\ capture_attempts = cycle_count
            /\ pc = "while" => (idle_waits = cycle_count /\ Len(events) = 2 * cycle_count)
            /\ pc \in {"finally", "done"} => loop_exit # "none")
    /\ [][cycle_count' = cycle_count
            \/ (cycle_count' = cycle_count + 1 /\ pc = "while" /\ pc' = "capture_image")]_vars

\* three cycles completed: three captures, three waits, counter 3
C7_Witness ==
    /\ pc = "while" /\ cycle_count = 3
    /\ capture_attempts = 3 /\ idle_waits = 3
    /\ args.interval = 2

\* ---------------------------------------------------------------- C8
\* C8: the day-directory step never fails with "already exists", and run for a
\* date whose directory exists it raises nothing and leaves the directories as
\* they are; run for a new date it leaves that date's directory in place.
C8_IdempotentDirectory ==
    /\ [](raised # "FileExistsError" /\ loop_exit # "FileExistsError")
    /\ [][(pc = "daily_dir" /\ ExpectedDir(now) \in dirs /\ ~interrupted')
            => (dirs' = dirs /\ pc' = "backend")]_vars
    /\ [][(pc = "daily_dir" /\ pc' = "backend") => ExpectedDir(now) \in dirs']_vars

\* the step has run a second time for the same date (no time passed in between)
C8_Witness ==
    /\ pc = "backend" /\ cycle_count = 2
    /\ args.interval = 0 /\ now = 0
    /\ dirs = {<<"images">>, <<"images", 0>>}

\* ---------------------------------------------------------------- C9
\* C9: once an interrupt was delivered during the loop, no capture attempt and no
\* idle wait is started any more, main() is in its handler or past it, and the
\* process reaches its end.
C9_InterruptEndsLoop ==
    /\ [](interrupted =>
            pc \in {"except_KeyboardInterrupt", "finally", "done", "aborted"})
    /\ [][interrupted => (events' = events /\ cycle_count' = cycle_count)]_vars
    /\ interrupted ~> Terminated

\* interrupted during the idle wait of the second cycle, and shut down
C9_Witness ==
    /\ interrupted /\ pc = "done"
    /\ loop_exit = "KeyboardInterrupt"
    /\ cycle_count = 2 /\ idle_waits = 2

\* ---------------------------------------------------------------- C10
\* C10: the flag is False while capture_image runs, True while the interval wait
\* runs, and False once main() has completed its finally block.
C10_FlagTracksPhase ==
    /\ pc \in {"capture_image", "daily_dir", "backend"} => in_low_power_mode = FALSE
    /\ pc = "sleep" => in_low_power_mode = TRUE
    /\ pc = "done" => in_low_power_mode = FALSE

\* shut down after an OSError of the third cycle's directory step, i.e. after
\* the flag had been set by two waits and cleared at the loop head
C10_Witness ==
    /\ pc = "done" /\ loop_exit = "OSError" /\ cycle_count = 3
    /\ in_low_power_mode = FALSE

\* ---------------------------------------------------------------- C4
TestRunning == t_pc # "off"
KernelSet == IF sys_power_state.readable THEN Range(sys_power_state.states) ELSE {}
KnownStates == {"mem", "standby", "freeze", "disk"}
NoneRecognized == TestRunning /\ KernelSet \cap KnownStates = {}

\* C4 as stated: with an empty, unreadable or unrecognised list the program keeps
\* running and does not exit with an error status.
C4_NoErrorExit == NoneRecognized => (exit_status # 1 /\ t_pc # "sys_exit")

\* C4 amended: reading the list raises nothing (unreadable counts as empty), and
\* with an empty, unreadable or unrecognised list the tester never suspends and
\* recommends nothing; unless interrupted first it leaves through sys.exit(1).
\* With a recognised state in the list it never leaves through sys.exit(1).
C4_ExitsWithStatusOne ==
    /\ NoneRecognized =>
          /\ rtcwake_calls = <<>>
          /\ recommended = <<>>
          /\ t_pc \in {"check", "filter", "sys_exit", "interrupted"}
          /\ t_pc = "sys_exit" => exit_status = 1
          /\ t_pc = "interrupted" => exit_status = 0
    /\ (TestRunning /\ ~NoneRecognized) => (t_pc # "sys_exit" /\ exit_status # 1)
    /\ (TestRunning /\ ~sys_power_state.readable /\ t_pc # "check") => available_states = <<>>

\* the list holds one unrecognised name and the tester has left with status 1
C4_Witness ==
    /\ sys_power_state = [readable |-> TRUE, states |-> <<"hybrid">>]
    /\ t_pc = "sys_exit" /\ exit_status = 1
    /\ available_states = <<"hybrid">> /\ states_to_test = <<>>

\* ---------------------------------------------------------------- C5
PreferenceRank == [mem |-> 1, standby |-> 2, freeze |-> 3, disk |-> 4]
FirstPreferred(S) == CHOOSE s \in S : \A o \in S : PreferenceRank[s] <= PreferenceRank[o]

\* the 10-second tests that were made, by result
Passed == {rtcwake_calls[i].state : i \in {j \in 1..Len(rtcwake_calls) :
              /\ rtcwake_calls[j].duration = DefaultDuration
              /\ rtcwake_calls[j].outcome = "exit0"}}
Failed == {rtcwake_calls[i].state : i \in {j \in 1..Len(rtcwake_calls) :
              /\ rtcwake_calls[j].duration = DefaultDuration
              /\ rtcwake_calls[j].outcome # "exit0"}}

\* C5 as stated: with a recognised state in the list, a state reported as
\* recommended is the first one of mem, standby, freeze, disk that is in the list.
C5_FirstListedIsRecommended ==
    (recommended # <<>> /\ KernelSet \cap KnownStates # {})
        => recommended = <<FirstPreferred(KernelSet \cap KnownStates)>>

\* C5 amended: the state reported as recommended is the first one of mem,
\* standby, freeze, disk that is in the list and whose 10-second rtcwake test
\* succeeded; none is reported when no test succeeded.  Only states that are in
\* the list and among the four names are ever tested or recommended.
C5_FirstWorkingIsRecommended ==
    TestRunning =>
        /\ \A i \in 1..Len(rtcwake_calls) :
              rtcwake_calls[i].state \in KernelSet \cap KnownStates
        /\ recommended # <<>> =>
              /\ Len(recommended) = 1
              /\ recommended[1] \in KernelSet \cap KnownStates
              /\ recommended[1] = FirstPreferred(Passed)
              /\ \A e \in KernelSet \cap KnownStates :
                    PreferenceRank[e] < PreferenceRank[recommended[1]] => e \in Failed
        /\ t_pc \in {"final_test", "returned"} => (recommended = <<>> <=> Passed = {})
        /\ t_pc = "returned" => Passed \cup Failed = KernelSet \cap KnownStates

\* the list is disk, mem; mem failed its test, disk passed and is recommended
C5_Witness ==
    /\ sys_power_state = [readable |-> TRUE, states |-> <<"disk", "mem">>]
    /\ t_pc = "returned"
    /\ recommended = <<"disk">>
    /\ Failed = {"mem"} /\ Passed = {"disk"}
====
